---- MODULE Spec2Model ----
(***************************************************************************)
(* Model of registrar/apps/core/utils.py: the permission resolver          *)
(* (get_user_api_permissions, get_effective_user_program_api_permissions)  *)
(* and the CSV utilities (serialize_to_csv, load_records_from_csv).        *)
(*                                                                         *)
(* Text is a sequence of one-character strings, so that splitting into     *)
(* lines, CSV quoting, trimming and lowercasing are computed character by  *)
(* character.                                                              *)
(***************************************************************************)
EXTENDS Integers, Sequences, FiniteSets, TLC

VARIABLES
    pc,                     \* position of the running call
    object_perms,           \* guardian object grants of the user: object -> set of db perms
    global_perms,           \* user.get_all_permissions()
    is_enrollment_enabled,  \* program.is_enrollment_enabled
    perm_call,              \* the resolver call made and the set it returned
    items,                  \* serialize_to_csv argument
    fields,                 \* serialize_to_csv argument field_names (ordered)
    csv_string,             \* load_records_from_csv argument
    field_names,            \* load_records_from_csv argument (set)
    optional_fields,        \* load_records_from_csv argument (set)
    row_iter,               \* csv_string.splitlines()
    reader_fieldnames,      \* DictReader._fieldnames: the raw header row, once read
    line_num,               \* lines of row_iter the csv reader has consumed
    n,                      \* enumerate(reader, 1) index of the last row read
    records,                \* the list being built, the return value
    error                   \* the exception raised, if any

vars == <<pc, object_perms, global_perms, is_enrollment_enabled, perm_call,
          items, fields, csv_string, field_names, optional_fields,
          row_iter, reader_fieldnames, line_num, n, records, error>>

permVars == <<object_perms, global_perms, is_enrollment_enabled, perm_call>>
csvVars == <<items, fields, csv_string, field_names, optional_fields,
             row_iter, reader_fieldnames, line_num, n, records, error>>

(***************************************************************************)
(* Generic helpers                                                         *)
(***************************************************************************)
\* Python's None, as a dict key or a value; no text equals it, since text is
\* made of one-character strings.
None == <<"None">>

Range(s) == { s[i] : i \in 1..Len(s) }

SeqsUpTo(S, k) == UNION { [1..m -> S] : m \in 0..k }

\* A list holding the elements of a set, in some order (list(set) in Python).
RECURSIVE SetToList(_)
SetToList(S) ==
    IF S = {} THEN <<>>
    ELSE LET x == CHOOSE y \in S : TRUE IN <<x>> \o SetToList(S \ {x})

(***************************************************************************)
(* Permission resolver                                                     *)
(***************************************************************************)
MaxGrants == 3

NoObject == "None"
PROGRAM == "program"
ORGANIZATION == "managing_organization"
Objects == {PROGRAM, ORGANIZATION}

DB_TO_API_PERMISSION_MAPPING ==
    [ p \in { "organization_read_metadata", "program_read_metadata",
              "organization_read_enrollments", "organization_write_enrollments",
              "organization_read_reports" } |->
        CASE p = "organization_read_metadata" -> "api_read_metadata"
          [] p = "program_read_metadata" -> "api_read_metadata"
          [] p = "organization_read_enrollments" -> "api_read_enrollments"
          [] p = "organization_write_enrollments" -> "api_write_enrollments"
          [] p = "organization_read_reports" -> "api_read_reports" ]

ENROLLMENT_PERMISSIONS_LIST == << "api_read_enrollments", "api_write_enrollments" >>

\* Storage-level permission identifiers a user can hold: the mapped ones and
\* one the mapping does not know.
DbPerms == DOMAIN DB_TO_API_PERMISSION_MAPPING \cup { "auth.view_user" }

\* guardian.shortcuts.get_perms(user, obj): a list
get_perms(obj) == SetToList(object_perms[obj])

\* list(user.get_all_permissions())
get_all_permissions == SetToList(global_perms)

\* the loop of get_user_api_permissions over the concatenated list
RECURSIVE MapPermsLoopNoFilter(_, _)
MapPermsLoopNoFilter(perms, acc) ==
    IF perms = <<>> THEN acc
    ELSE LET db_perm == Head(perms) IN
         MapPermsLoopNoFilter(Tail(perms),
             IF db_perm \in DOMAIN DB_TO_API_PERMISSION_MAPPING
             THEN acc \cup { DB_TO_API_PERMISSION_MAPPING[db_perm] }
             ELSE acc \cup { db_perm })

RECURSIVE MapPermsLoop(_, _)
MapPermsLoop(perms, acc) ==
    IF perms = <<>> THEN acc
    ELSE LET db_perm == Head(perms) IN
         MapPermsLoop(Tail(perms),
             IF db_perm \in DOMAIN DB_TO_API_PERMISSION_MAPPING
             THEN acc \cup { DB_TO_API_PERMISSION_MAPPING[db_perm] }
             ELSE acc)

get_user_api_permissions(obj) ==
    LET user_object_permissions == IF obj # NoObject THEN get_perms(obj) ELSE <<>>
        user_global_permissions == get_all_permissions
    IN  MapPermsLoop(user_object_permissions \o user_global_permissions, {})

RemoveNothing(enabled, user_permissions) == user_permissions

_remove_permissions_if_enrollments_disabled(enabled, user_permissions) ==
    IF ~enabled
    THEN user_permissions \ Range(ENROLLMENT_PERMISSIONS_LIST)
    ELSE user_permissions

EffectiveProgramOnly ==
    _remove_permissions_if_enrollments_disabled(
        is_enrollment_enabled, get_user_api_permissions(PROGRAM))

get_effective_user_program_api_permissions ==
    LET user_permissions ==
            get_user_api_permissions(PROGRAM) \cup get_user_api_permissions(ORGANIZATION)
    IN  _remove_permissions_if_enrollments_disabled(is_enrollment_enabled, user_permissions)

NoCall == [op |-> "none", obj |-> NoObject, result |-> {}]

GrantCount ==
    Cardinality(global_perms) + Cardinality(object_perms[PROGRAM])
        + Cardinality(object_perms[ORGANIZATION])

\* The data the resolver reads is owned elsewhere: these three actions are the
\* ways it can come to hold any value before a resolver call.
AssignObjectPerm(obj, p) ==
    /\ pc = "setup"
    /\ GrantCount < MaxGrants
    /\ p \notin object_perms[obj]
    /\ object_perms' = [object_perms EXCEPT ![obj] = @ \cup {p}]
    /\ UNCHANGED <<pc, global_perms, is_enrollment_enabled, perm_call>>
    /\ UNCHANGED csvVars

AssignGlobalPerm(p) ==
    /\ pc = "setup"
    /\ GrantCount < MaxGrants
    /\ p \notin global_perms
    /\ global_perms' = global_perms \cup {p}
    /\ UNCHANGED <<pc, object_perms, is_enrollment_enabled, perm_call>>
    /\ UNCHANGED csvVars

SetEnrollmentEnabled(b) ==
    /\ pc = "setup"
    /\ is_enrollment_enabled # b
    /\ is_enrollment_enabled' = b
    /\ UNCHANGED <<pc, object_perms, global_perms, perm_call>>
    /\ UNCHANGED csvVars

CallGetUserApiPermissions(obj) ==
    /\ pc = "setup"
    /\ perm_call' = [op |-> "get_user_api_permissions", obj |-> obj,
                     result |-> get_user_api_permissions(obj)]
    /\ pc' = "called"
    /\ UNCHANGED <<object_perms, global_perms, is_enrollment_enabled>>
    /\ UNCHANGED csvVars

CallGetEffective ==
    /\ pc = "setup"
    /\ perm_call' = [op |-> "get_effective_user_program_api_permissions",
                     obj |-> PROGRAM,
                     result |-> get_effective_user_program_api_permissions]
    /\ pc' = "called"
    /\ UNCHANGED <<object_perms, global_perms, is_enrollment_enabled>>
    /\ UNCHANGED csvVars

NoError == [kind |-> "none", msg |-> "", row |-> 0, fields |-> {}]

CsvIdle ==
    /\ items = <<>>
    /\ fields = <<>>
    /\ csv_string = <<>>
    /\ field_names = {}
    /\ optional_fields = {}
    /\ row_iter = <<>>
    /\ reader_fieldnames = None
    /\ line_num = 0
    /\ n = 0
    /\ records = <<>>
    /\ error = NoError

PermIdle ==
    /\ object_perms = [o \in Objects |-> {}]
    /\ global_perms = {}
    /\ is_enrollment_enabled = TRUE
    /\ perm_call = NoCall

InitPerm ==
    /\ pc = "setup"
    /\ PermIdle
    /\ CsvIdle

NextPerm ==
    \/ \E obj \in Objects, p \in DbPerms : AssignObjectPerm(obj, p)
    \/ \E p \in DbPerms : AssignGlobalPerm(p)
    \/ \E b \in BOOLEAN : SetEnrollmentEnabled(b)
    \/ \E obj \in Objects \cup {NoObject} : CallGetUserApiPermissions(obj)
    \/ CallGetEffective

SpecPerm == InitPerm /\ [][NextPerm]_vars

(***************************************************************************)
(* Text: str.strip, str.lower, str.splitlines                              *)
(***************************************************************************)
\* Characters str.strip() removes.
Whitespace == { " ", "\t", "\n", "\r", "\f" }

\* Characters at which str.splitlines() breaks a line ("\r\n" counts once).
LineBoundaries == { "\n", "\r", "\f" }

LowerTable == ("A" :> "a") @@ ("B" :> "b") @@ ("P" :> "p") @@ ("X" :> "x")

LowerChar(c) == IF c \in DOMAIN LowerTable THEN LowerTable[c] ELSE c

lower(s) == [ i \in 1..Len(s) |-> LowerChar(s[i]) ]

RECURSIVE lstrip(_)
lstrip(s) == IF s # <<>> /\ Head(s) \in Whitespace THEN lstrip(Tail(s)) ELSE s

RECURSIVE rstrip(_)
rstrip(s) ==
    IF s # <<>> /\ s[Len(s)] \in Whitespace THEN rstrip(SubSeq(s, 1, Len(s) - 1)) ELSE s

strip(s) == rstrip(lstrip(s))

RECURSIVE SplitLinesFrom(_, _, _)
SplitLinesFrom(text, cur, out) ==
    IF text = <<>>
    THEN IF cur = <<>> THEN out ELSE Append(out, cur)
    ELSE IF Head(text) = "\r" /\ Len(text) >= 2 /\ text[2] = "\n"
    THEN SplitLinesFrom(Tail(Tail(text)), <<>>, Append(out, cur))
    ELSE IF Head(text) \in LineBoundaries
    THEN SplitLinesFrom(Tail(text), <<>>, Append(out, cur))
    ELSE SplitLinesFrom(Tail(text), Append(cur, Head(text)), out)

splitlines(text) == SplitLinesFrom(text, <<>>, <<>>)

(***************************************************************************)
(* csv.reader with the default (excel) dialect: delimiter ",", quotechar   *)
(* '"', doublequote, no escapechar, not strict.  The parser is the state   *)
(* machine of the csv module, fed one line of row_iter at a time.          *)
(***************************************************************************)
EOL == "EOL"

parse_reset == [state |-> "START_RECORD", field |-> <<>>, fields |-> <<>>]

parse_save_field(ps) == [ps EXCEPT !.fields = Append(@, ps.field), !.field = <<>>]

parse_add_char(ps, c) == [ps EXCEPT !.field = Append(@, c)]

StartField(ps, c) ==
    IF c \in {"\n", "\r", EOL}
    THEN [parse_save_field(ps) EXCEPT
             !.state = IF c = EOL THEN "START_RECORD" ELSE "EAT_CRNL"]
    ELSE IF c = "\"" THEN [ps EXCEPT !.state = "IN_QUOTED_FIELD"]
    ELSE IF c = "," THEN [parse_save_field(ps) EXCEPT !.state = "START_FIELD"]
    ELSE [parse_add_char(ps, c) EXCEPT !.state = "IN_FIELD"]

parse_process_char(ps, c) ==
    CASE ps.state = "START_RECORD" ->
            IF c = EOL THEN ps
            ELSE IF c \in {"\n", "\r"} THEN [ps EXCEPT !.state = "EAT_CRNL"]
            ELSE StartField(ps, c)
      [] ps.state = "START_FIELD" -> StartField(ps, c)
      [] ps.state = "IN_FIELD" ->
            IF c \in {"\n", "\r", EOL}
            THEN [parse_save_field(ps) EXCEPT
                     !.state = IF c = EOL THEN "START_RECORD" ELSE "EAT_CRNL"]
            ELSE IF c = "," THEN [parse_save_field(ps) EXCEPT !.state = "START_FIELD"]
            ELSE parse_add_char(ps, c)
      [] ps.state = "IN_QUOTED_FIELD" ->
            IF c = EOL THEN ps
            ELSE IF c = "\"" THEN [ps EXCEPT !.state = "QUOTE_IN_QUOTED_FIELD"]
            ELSE parse_add_char(ps, c)
      [] ps.state = "QUOTE_IN_QUOTED_FIELD" ->
            IF c = "\"" THEN [parse_add_char(ps, c) EXCEPT !.state = "IN_QUOTED_FIELD"]
            ELSE IF c = "," THEN [parse_save_field(ps) EXCEPT !.state = "START_FIELD"]
            ELSE IF c \in {"\n", "\r", EOL}
            THEN [parse_save_field(ps) EXCEPT
                     !.state = IF c = EOL THEN "START_RECORD" ELSE "EAT_CRNL"]
            ELSE [parse_add_char(ps, c) EXCEPT !.state = "IN_FIELD"]
      [] ps.state = "EAT_CRNL" ->
            IF c \in {"\n", "\r"} THEN ps
            ELSE IF c = EOL THEN [ps EXCEPT !.state = "START_RECORD"]
            ELSE [ps EXCEPT !.state = "csv.Error"]
      [] OTHER -> ps

RECURSIVE ParseLine(_, _)
ParseLine(ps, line) ==
    IF line = <<>> THEN parse_process_char(ps, EOL)
    ELSE ParseLine(parse_process_char(ps, Head(line)), Tail(line))

\* Reader.__next__ from position pos of the lines: the next row, or StopIteration.
RECURSIVE ReaderLoop(_, _, _)
ReaderLoop(lines, pos, ps) ==
    IF pos >= Len(lines)
    THEN IF ps.field # <<>> \/ ps.state = "IN_QUOTED_FIELD"
         THEN [ok |-> TRUE, row |-> parse_save_field(ps).fields, pos |-> pos]
         ELSE [ok |-> FALSE, row |-> <<>>, pos |-> pos]
    ELSE LET after == ParseLine(ps, lines[pos + 1]) IN
         IF after.state = "START_RECORD"
         THEN [ok |-> TRUE, row |-> after.fields, pos |-> pos + 1]
         ELSE ReaderLoop(lines, pos + 1, after)

reader_next(lines, pos) == ReaderLoop(lines, pos, parse_reset)

(***************************************************************************)
(* csv.DictReader and StrippedLowercaseFieldNamesDictReader                *)
(***************************************************************************)
\* StrippedLowercaseFieldNamesDictReader.fieldnames, given the raw header row
fieldnames(raw_field_names) ==
    [ i \in 1..Len(raw_field_names) |-> lower(strip(raw_field_names[i])) ]

DictSet(d, k, v) == [ x \in DOMAIN d \cup {k} |-> IF x = k THEN v ELSE d[x] ]

EmptyDict == [ x \in {} |-> None ]

\* dict(zip(keys, vals)): a later pair replaces an earlier one with the same key
RECURSIVE DictZip(_, _, _)
DictZip(keys, vals, d) ==
    IF keys = <<>> \/ vals = <<>> THEN d
    ELSE DictZip(Tail(keys), Tail(vals), DictSet(d, Head(keys), Head(vals)))

RECURSIVE DictFill(_, _, _)
DictFill(keys, v, d) ==
    IF keys = <<>> THEN d ELSE DictFill(Tail(keys), v, DictSet(d, Head(keys), v))

\* the dict DictReader.__next__ builds from a non-blank row (restkey and
\* restval are None)
DictReaderRow(names, row) ==
    LET d == DictZip(names, row, EmptyDict)
        lf == Len(names)
        lr == Len(row)
    IN  IF lf < lr THEN DictSet(d, None, SubSeq(row, lf + 1, lr))
        ELSE IF lf > lr THEN DictFill(SubSeq(names, lr + 1, lf), None, d)
        ELSE d

\* DictReader.__next__ reads rows until one is not [] (blank lines are skipped)
RECURSIVE DictReaderNext(_, _)
DictReaderNext(lines, pos) ==
    LET r == reader_next(lines, pos) IN
    IF r.ok /\ r.row = <<>> THEN DictReaderNext(lines, r.pos) ELSE r

(***************************************************************************)
(* load_records_from_csv(csv_string, field_names, optional_fields)         *)
(***************************************************************************)
required_fields == field_names \ optional_fields

missing_fields(names) == required_fields \ Range(names)

\* bool(row[field]): None and "" are falsy
Truthy(v) == v # None /\ v # <<>>

\* the condition of the if in the row loop
row_is_bad(row) ==
    \/ None \in DOMAIN row
    \/ \E field \in required_fields : ~Truthy(row[field])

\* val.strip() is called on every value kept: a None value has no strip
strip_raises(row) == \E field \in DOMAIN row \cap field_names : row[field] = None

StrippedRowUnfiltered(row) == [ field \in DOMAIN row |-> strip(row[field]) ]

stripped_row(row) == [ field \in DOMAIN row \cap field_names |-> strip(row[field]) ]

TypeError ==
    [kind |-> "TypeError", msg |-> "'NoneType' object is not iterable",
     row |-> 0, fields |-> {}]

AttributeError(row_number) ==
    [kind |-> "AttributeError", msg |-> "'NoneType' object has no attribute 'strip'",
     row |-> row_number, fields |-> {}]

MissingHeadersError(missing) ==
    [kind |-> "ValidationError", msg |-> "CSV is missing headers",
     row |-> 0, fields |-> missing]

MissingDataError(row_number) ==
    [kind |-> "ValidationError", msg |-> "CSV is missing data at row",
     row |-> row_number, fields |-> field_names]

\* lines 154-163: split the text, read the header row, check the headers
LoadHeader ==
    /\ pc = "load"
    /\ LET lines == splitlines(csv_string)
           r == reader_next(lines, 0)
       IN  /\ row_iter' = lines
           /\ line_num' = r.pos
           /\ IF ~r.ok
              THEN /\ reader_fieldnames' = None
                   /\ error' = TypeError
                   /\ pc' = "raised"
              ELSE /\ reader_fieldnames' = r.row
                   /\ IF missing_fields(fieldnames(r.row)) # {}
                      THEN /\ error' = MissingHeadersError(missing_fields(fieldnames(r.row)))
                           /\ pc' = "raised"
                      ELSE /\ error' = NoError
                           /\ pc' = "rows"
    /\ UNCHANGED <<n, records, items, fields, csv_string, field_names, optional_fields>>
    /\ UNCHANGED permVars

\* lines 164-176: one turn of the loop over the reader
LoadRow ==
    /\ pc = "rows"
    /\ LET r == DictReaderNext(row_iter, line_num) IN
       /\ r.ok
       /\ line_num' = r.pos
       /\ n' = n + 1
       /\ LET row == DictReaderRow(fieldnames(reader_fieldnames), r.row) IN
          IF row_is_bad(row)
          THEN /\ error' = MissingDataError(n + 1)
               /\ pc' = "raised"
               /\ UNCHANGED records
          ELSE IF strip_raises(row)
          THEN /\ error' = AttributeError(n + 1)
               /\ pc' = "raised"
               /\ UNCHANGED records
          ELSE /\ records' = Append(records, stripped_row(row))
               /\ UNCHANGED <<pc, error>>
    /\ UNCHANGED <<row_iter, reader_fieldnames, items, fields, csv_string,
                   field_names, optional_fields>>
    /\ UNCHANGED permVars

\* line 177: the reader is exhausted
LoadReturn ==
    /\ pc = "rows"
    /\ ~DictReaderNext(row_iter, line_num).ok
    /\ line_num' = DictReaderNext(row_iter, line_num).pos
    /\ pc' = "returned"
    /\ UNCHANGED <<n, records, error, row_iter, reader_fieldnames, items, fields,
                   csv_string, field_names, optional_fields>>
    /\ UNCHANGED permVars

(***************************************************************************)
(* Inputs of load_records_from_csv: texts of a header line and data lines  *)
(***************************************************************************)
MaxCells == 4

FieldUniverse == { <<"a">>, <<"p">> }
OptionalUniverse == { <<"p">> }

HeaderTokens == { <<"a">>, <<" ", "A">>, <<"p">> }
CellTokens == { <<>>, <<" ">>, <<" ", "v">> }

RECURSIVE Join(_, _)
Join(parts, sep) ==
    IF parts = <<>> THEN <<>>
    ELSE IF Len(parts) = 1 THEN parts[1]
    ELSE parts[1] \o <<sep>> \o Join(Tail(parts), sep)

\* the lists of data lines that hold at most k cells in all, every line
\* holding at least one (a line whose only cell is empty is a blank line)
RECURSIVE DataLinesUpTo(_)
DataLinesUpTo(k) ==
    { <<>> } \cup
    UNION { { <<Join(r, ",")>> \o rest :
                r \in [1..m -> CellTokens], rest \in DataLinesUpTo(k - m) } :
            m \in 1..k }

\* a header line and data lines of at most MaxCells cells in all
LoadInputs ==
    UNION { { Join(<<Join(h, ",")>> \o rs, "\n") :
                h \in [1..j -> HeaderTokens], rs \in DataLinesUpTo(MaxCells - j) } :
            j \in 0..MaxCells }

InitLoad ==
    /\ pc = "load"
    /\ PermIdle
    /\ items = <<>>
    /\ fields = <<>>
    /\ csv_string \in LoadInputs
    /\ field_names \in SUBSET FieldUniverse
    /\ optional_fields \in SUBSET OptionalUniverse
    /\ row_iter = <<>>
    /\ reader_fieldnames = None
    /\ line_num = 0
    /\ n = 0
    /\ records = <<>>
    /\ error = NoError

NextLoad ==
    \/ LoadHeader
    \/ LoadRow
    \/ LoadReturn

SpecLoad == InitLoad /\ [][NextLoad]_vars

(***************************************************************************)
(* serialize_to_csv(items, field_names, include_headers): csv.DictWriter   *)
(* with the default dialect (QUOTE_MINIMAL, lineterminator "\r\n")         *)
(***************************************************************************)
StrValue(s) == [type |-> "str", s |-> s]
BoolValue(b) == [type |-> "bool", b |-> b]
NoneValue == [type |-> "NoneType"]

\* how the writer turns a value into text: None is empty, the rest is str(value)
WriterText(v) ==
    CASE v.type = "str" -> v.s
      [] v.type = "bool" -> IF v.b THEN <<"T", "r", "u", "e">>
                            ELSE <<"F", "a", "l", "s", "e">>
      [] OTHER -> <<>>

\* characters that make the writer quote a field
NeedsQuote(c) == c \in { ",", "\"", "\r", "\n" }

RECURSIVE DoubleQuotes(_)
DoubleQuotes(s) ==
    IF s = <<>> THEN <<>>
    ELSE IF Head(s) = "\"" THEN <<"\"", "\"">> \o DoubleQuotes(Tail(s))
    ELSE <<Head(s)>> \o DoubleQuotes(Tail(s))

\* join_append: one field of a row, quoted when it has to be
WriterField(s) ==
    IF \E i \in 1..Len(s) : NeedsQuote(s[i])
    THEN <<"\"">> \o DoubleQuotes(s) \o <<"\"">>
    ELSE s

\* writer.writerow(row) for a list of texts
writerow(row) ==
    IF Len(row) = 1 /\ row[1] = <<>>
    THEN <<"\"", "\"", "\r", "\n">>
    ELSE Join([ i \in 1..Len(row) |-> WriterField(row[i]) ], ",") \o <<"\r", "\n">>

\* DictWriter._dict_to_list with extrasaction="ignore" and restval ""
dict_to_list(rowdict, names) ==
    [ i \in 1..Len(names) |->
        IF names[i] \in DOMAIN rowdict THEN WriterText(rowdict[names[i]]) ELSE <<>> ]

RECURSIVE WriteItems(_, _)
WriteItems(its, names) ==
    IF its = <<>> THEN <<>>
    ELSE writerow(dict_to_list(Head(its), names)) \o WriteItems(Tail(its), names)

serialize_to_csv(its, names, include_headers) ==
    (IF include_headers THEN writerow(names) ELSE <<>>) \o WriteItems(its, names)

\* serialize_to_csv(items, fields, include_headers=True), whose text is then
\* handed to load_records_from_csv(text, set(fields))
Serialize ==
    /\ pc = "serialize"
    /\ csv_string' = serialize_to_csv(items, fields, TRUE)
    /\ field_names' = Range(fields)
    /\ optional_fields' = {}
    /\ pc' = "load"
    /\ UNCHANGED <<items, fields, row_iter, reader_fieldnames, line_num, n, records, error>>
    /\ UNCHANGED permVars

MaxFields == 2
MaxItems == 2

\* Field names of the round trip: lowercase and trimmed, as the loader's
\* header normalisation demands of field_names.
RoundTripFields == { <<"a">>, <<"p">> }

\* Non-empty values: plain, with surrounding whitespace, with a line break
\* inside, with a delimiter and a quote, and a boolean.
RoundTripValues ==
    { StrValue(<<"v">>), StrValue(<<" ", "v">>), StrValue(<<"v", "\n", "w">>),
      StrValue(<<"v", ",", "\"">>), BoolValue(TRUE) }

InitRoundTrip ==
    /\ pc = "serialize"
    /\ PermIdle
    /\ fields \in { f \in SeqsUpTo(RoundTripFields, MaxFields) : f # <<>> }
    /\ items \in SeqsUpTo([Range(fields) -> RoundTripValues], MaxItems)
    /\ csv_string = <<>>
    /\ field_names = {}
    /\ optional_fields = {}
    /\ row_iter = <<>>
    /\ reader_fieldnames = None
    /\ line_num = 0
    /\ n = 0
    /\ records = <<>>
    /\ error = NoError

NextRoundTrip ==
    \/ Serialize
    \/ LoadHeader
    \/ LoadRow
    \/ LoadReturn

SpecRoundTrip == InitRoundTrip /\ [][NextRoundTrip]_vars

(***************************************************************************)
(* Properties of the permission resolver (SpecPerm)                        *)
(***************************************************************************)
EnrollmentPermissions == Range(ENROLLMENT_PERMISSIONS_LIST)

\* the API permissions a set of storage-level identifiers stands for
ApiImage(db_perms) ==
    { DB_TO_API_PERMISSION_MAPPING[p] : p \in db_perms \cap DOMAIN DB_TO_API_PERMISSION_MAPPING }

MappingRange ==
    { DB_TO_API_PERMISSION_MAPPING[p] : p \in DOMAIN DB_TO_API_PERMISSION_MAPPING }

GrantedOn(obj) ==
    (IF obj # NoObject THEN object_perms[obj] ELSE {}) \cup global_perms

EffectiveCalled == perm_call.op = "get_effective_user_program_api_permissions"

ResolverCalled == perm_call.op = "get_user_api_permissions"

\* C1: when program.is_enrollment_enabled is false, the set returned by
\* get_effective_user_program_api_permissions holds no enrollment permission,
\* whatever the object-scoped and global grants are.
C1_NoEnrollmentWhenDisabled ==
    (EffectiveCalled /\ ~is_enrollment_enabled)
        => perm_call.result \cap EnrollmentPermissions = {}

\* C1 witness: the call was made on a program with enrollments disabled by a
\* user whose grants do stand for an enrollment permission.
C1_Witness ==
    /\ EffectiveCalled
    /\ ~is_enrollment_enabled
    /\ ApiImage(GrantedOn(PROGRAM) \cup GrantedOn(ORGANIZATION)) \cap EnrollmentPermissions # {}

\* C2: when program.is_enrollment_enabled is true, the effective set is exactly
\* the union of the resolver's result on the program and on its managing
\* organization.
C2_UnionWhenEnabled ==
    (EffectiveCalled /\ is_enrollment_enabled)
        => perm_call.result =
              get_user_api_permissions(PROGRAM) \cup get_user_api_permissions(ORGANIZATION)

\* C2 witness: an enabled program, an enrollment permission in the result, and
\* a permission that only the organization grant contributes.
C2_Witness ==
    /\ EffectiveCalled
    /\ is_enrollment_enabled
    /\ perm_call.result \cap EnrollmentPermissions # {}
    /\ ApiImage(GrantedOn(ORGANIZATION)) \ ApiImage(GrantedOn(PROGRAM)) # {}

\* C3: get_user_api_permissions(user, obj) is the image under the mapping of
\* the mapped identifiers among the object-scoped grants (none without an
\* object) and the global grants; so it lies within the range of the mapping.
C3_ResolverIsMappedImage ==
    ResolverCalled
        => /\ perm_call.result = ApiImage(GrantedOn(perm_call.obj))
           /\ perm_call.result \subseteq MappingRange

\* C3 witness: a call whose grants hold an unmapped identifier besides mapped
\* ones, object-scoped and global.
C3_Witness ==
    /\ ResolverCalled
    /\ perm_call.obj # NoObject
    /\ GrantedOn(perm_call.obj) \ DOMAIN DB_TO_API_PERMISSION_MAPPING # {}
    /\ object_perms[perm_call.obj] \cap DOMAIN DB_TO_API_PERMISSION_MAPPING # {}
    /\ global_perms # {}
    /\ perm_call.result # {}

(***************************************************************************)
(* Properties of the CSV loader (SpecLoad, SpecRoundTrip)                  *)
(***************************************************************************)
RECURSIVE RowsFrom(_, _)
RowsFrom(lines, pos) ==
    LET r == reader_next(lines, pos) IN
    IF r.ok THEN <<r.row>> \o RowsFrom(lines, r.pos) ELSE <<>>

\* every row the csv parser finds in the input text, the header row first
ParsedRows == RowsFrom(splitlines(csv_string), 0)

HasHeaderRow == ParsedRows # <<>>

\* the headers, trimmed and lowercased
HeaderNames ==
    IF HasHeaderRow
    THEN [ i \in 1..Len(ParsedRows[1]) |-> lower(strip(ParsedRows[1][i])) ]
    ELSE <<>>

HeaderSet == Range(HeaderNames)

NotBlank(r) == r # <<>>

\* the data rows: the rows after the header that are not blank lines
DataRows == IF HasHeaderRow THEN SelectSeq(Tail(ParsedRows), NotBlank) ELSE <<>>

MissingHeaders == required_fields \ HeaderSet

\* the column a header names (the last one, if several carry the name)
ColumnOf(f) == CHOOSE i \in 1..Len(HeaderNames) :
    /\ HeaderNames[i] = f
    /\ \A j \in (i + 1)..Len(HeaderNames) : HeaderNames[j] # f

Ragged(r) == Len(r) # Len(HeaderNames)

BadRow(r) == Ragged(r) \/ \E f \in required_fields : r[ColumnOf(f)] = <<>>

BadRowIndexes == { i \in 1..Len(DataRows) : BadRow(DataRows[i]) }

FirstBadRow == CHOOSE i \in BadRowIndexes : \A j \in BadRowIndexes : i <= j

Finished == pc \in { "returned", "raised" }

\* C4: if a required field (field_names minus optional_fields) is absent from
\* the trimmed, lowercased headers, the call fails with a ValidationError that
\* lists every missing header, and returns no records; this for every text,
\* the empty one included.
C4_MissingHeadersReported ==
    (pc # "load" /\ MissingHeaders # {})
        => /\ pc = "raised"
           /\ error.kind = "ValidationError"
           /\ error.msg = "CSV is missing headers"
           /\ error.fields = MissingHeaders
           /\ records = <<>>

\* C5: with all required headers present, if a data row is ragged or has an
\* empty value for a required field, the call fails with a ValidationError
\* naming the 1-based index of the first such row.
C5_FirstBadRowReported ==
    (Finished /\ HasHeaderRow /\ MissingHeaders = {} /\ BadRowIndexes # {})
        => /\ pc = "raised"
           /\ error.kind = "ValidationError"
           /\ error.row = FirstBadRow

\* C6: on success there is one record per data row, in file order; the keys
\* of a record are the requested fields that are headers, and each value is
\* the row's cell of that column, trimmed.
C6_RecordsAreProjectedRows ==
    pc = "returned"
        => /\ Len(records) = Len(DataRows)
           /\ \A i \in 1..Len(records) :
                /\ DOMAIN records[i] = field_names \cap HeaderSet
                /\ \A f \in DOMAIN records[i] :
                     records[i][f] = strip(DataRows[i][ColumnOf(f)])

\* C6 witness: a successful load of two rows giving two different records,
\* with a column that was not requested and a value that needed trimming.
C6_Witness ==
    /\ pc = "returned"
    /\ Len(records) = 2
    /\ records[1] # records[2]
    /\ HeaderSet \ field_names # {}
    /\ \E i \in 1..2 : \E f \in DOMAIN records[i] :
          records[i][f] # DataRows[i][ColumnOf(f)]

\* what a value of an item reads as once written
Rendered(v) ==
    IF v.type = "bool"
    THEN (IF v.b THEN <<"T", "r", "u", "e">> ELSE <<"F", "a", "l", "s", "e">>)
    ELSE v.s

\* C7: loading what serialize_to_csv wrote (headers included) with the set of
\* the fields gives, in order, one record per item whose values are the
\* item's values, up to trimming and the rendering of booleans.
C7_RoundTrip ==
    (Finished /\ fields # <<>>)
        => /\ pc = "returned"
           /\ Len(records) = Len(items)
           /\ \A i \in 1..Len(records) : \A f \in Range(fields) :
                /\ f \in DOMAIN records[i]
                /\ records[i][f] = strip(Rendered(items[i][f]))

\* C8: the ValidationError for a bad data row lists the required fields, that
\* is field_names minus optional_fields, and no optional field.
C8_RowErrorListsRequiredFields ==
    (pc = "raised" /\ error.msg = "CSV is missing data at row")
        => error.fields = required_fields

\* C9: in every record returned, every required field is a key and maps to a
\* non-empty string.
C9_RequiredValuesNonEmpty ==
    pc = "returned"
        => \A i \in 1..Len(records) : \A f \in required_fields :
              /\ f \in DOMAIN records[i]
              /\ records[i][f] # <<>>

\* a row no longer than the header whose required fields all have a
\* non-empty cell
AcceptableRow(r) ==
    /\ Len(r) <= Len(HeaderNames)
    /\ \A f \in required_fields : ColumnOf(f) <= Len(r) /\ r[ColumnOf(f)] # <<>>

DeclaredOptional == field_names \cap optional_fields

\* C10: with an optional field declared, rows whose required fields are all
\* non-empty are accepted even when the optional field is absent from the
\* header, empty, or cut off by a short row: the call returns, and a record
\* has the optional key only if the header has the column, with the empty
\* string for an empty cell.
C10_OptionalFieldMayBeAbsent ==
    ( /\ Finished
      /\ HasHeaderRow
      /\ MissingHeaders = {}
      /\ DeclaredOptional # {}
      /\ \A i \in 1..Len(DataRows) : AcceptableRow(DataRows[i]) )
        => /\ pc = "returned"
           /\ Len(records) = Len(DataRows)
           /\ \A i \in 1..Len(records) :
                /\ DOMAIN records[i] \cap DeclaredOptional = DeclaredOptional \cap HeaderSet
                /\ \A f \in DeclaredOptional \cap HeaderSet :
                     (ColumnOf(f) <= Len(DataRows[i]) /\ DataRows[i][ColumnOf(f)] = <<>>)
                        => records[i][f] = <<>>

====
